---- MODULE Spec2Model ----
(***************************************************************************)
(* Model of snap-bootstrap's "initramfs-mounts" command                    *)
(* (cmd/snap-bootstrap/cmd_initramfs_mounts.go).                           *)
(*                                                                         *)
(* One behaviour is one boot attempt: the initramfs calls the command      *)
(* (generateInitramfsMounts), optionally performs the mounts it printed    *)
(* (PerformMounts) and calls it again.  The command keeps no state of its  *)
(* own: everything it reads is the kernel command line, the mount table,   *)
(* the seed and the modeenv file.                                          *)
(*                                                                         *)
(* Paths are sequences of path components with a leading "/" component,    *)
(* so that filepath.Join is concatenation that drops empty elements.       *)
(* A kernel command line is the sequence of its whitespace separated       *)
(* words; a word is [key, val]: key is the recognised "name=" prefix of    *)
(* the word ("other" when the word has neither prefix) and val is the rest *)
(* of the word after the first "=".                                        *)
(*                                                                         *)
(* /proc/cmdline is readable and none of its words exceeds the scanner's   *)
(* buffer, so the error returns of lines 264-266 and 256-258 are not       *)
(* taken.  The seed's essential snaps have pairwise distinct types.        *)
(***************************************************************************)
EXTENDS Integers, Sequences, FiniteSets, TLC

\* ---------------------------------------------------------------- bounds
MaxCmdLen == 3
MaxCalls == 6

\* ------------------------------------------------------------- constants
modeKey == "snapd_recovery_mode"
sysKey == "snapd_recovery_system"

validModes == <<"install", "recover", "run">>

runMnt == <<"/", "run", "mnt">>

SnapBlobDir == <<"var", "lib", "snapd", "snaps">>

\* filepath.Join: concatenation of the elements, empty elements ignored
Join(a, b) == a \o SelectSeq(b, LAMBDA c : c # "")

seedDir == Join(runMnt, <<"ubuntu-seed">>)
bootDir == Join(runMnt, <<"ubuntu-boot">>)
dataDir == Join(runMnt, <<"ubuntu-data">>)
baseDir == Join(runMnt, <<"base">>)
kernelDir == Join(runMnt, <<"kernel">>)
snapdDir == Join(runMnt, <<"snapd">>)

MountPoints == {seedDir, bootDir, dataDir, baseDir, kernelDir, snapdDir}

\* filepath.Base
Base(p) == p[Len(p)]

ByLabel(name) == <<"/", "dev", "disk", "by-label", name>>

\* one line of output: "[--type=<type> ]<source> <target>"
Tuple(ty, src, tgt) == [type |-> ty, source |-> src, target |-> tgt]

TmpfsDataTuple == Tuple("tmpfs", <<"tmpfs">>, <<"/", "run", "mnt", "ubuntu-data">>)

\* ---------------------------------------------------------------- errors
NoErr == [msg |-> "", arg |-> ""]
Err(m, a) == [msg |-> m, arg |-> a]

ErrNoMode == Err("cannot detect mode nor recovery system to use", "")
ErrUnknownMode(m) == Err("cannot use unknown mode", m)
ErrRecover == Err("recover mode mount generation not implemented yet", "")
ErrInternal == Err("internal error: mode in generateInitramfsMounts not handled", "")

\* ----------------------------------------------------------------- state
VARIABLES
    cmdline,     \* content of /proc/cmdline, a sequence of words
    mounted,     \* the mount table: the set of mounted paths
    seed,        \* the seed on ubuntu-seed as the seed loader sees it
    modeenv,     \* the modeenv file under <data>/system-data
    probeErr,    \* mount points for which the mount probe fails
    writeOK,     \* whether the modeenv file can be written
    out,         \* stdout of the last invocation, a sequence of tuples
    err,         \* error returned by the last invocation
    probes,      \* mount points probed by the last invocation, in order
    wrote,       \* the last invocation wrote the modeenv file
    seedLoaded,  \* the last invocation opened the seed
    modeenvRead, \* the last invocation read the modeenv file
    pc,          \* "idle": before a call; "called": a call has returned
    calls,       \* number of invocations so far
    faithful,    \* every emitted mount was performed before the next call
    doneAt,      \* first invocation with no output and no error, 0 if none
    mountCount,  \* how many times each mount point was mounted by the caller
    initMounted, \* the mount table at the start of the boot attempt
    repaired     \* the seed was replaced by a valid one after a failed call

vars == <<cmdline, mounted, seed, modeenv, probeErr, writeOK, out, err, probes,
          wrote, seedLoaded, modeenvRead, pc, calls, faithful, doneAt,
          mountCount, initMounted, repaired>>

\* ------------------------------------------------------- cmdline parser
InList(l, x) == \E i \in 1..Len(l) : l[i] = x

ScanRes(m, s, e) == [mode |-> m, sysLabel |-> s, err |-> e]

\* variant: no early return on mode "run"
ScanStep_NoRunReturn(tok, mode, sysLabel) ==
    LET isMode == tok.key = modeKey
        m1 == IF isMode THEN (IF tok.val = "" THEN "install" ELSE tok.val)
              ELSE mode
        s1 == IF tok.key = sysKey THEN tok.val ELSE sysLabel
        go(d, r) == [done |-> d, res |-> r, mode |-> m1, sysLabel |-> s1]
    IN IF isMode /\ ~InList(validModes, m1)
         THEN go(TRUE, ScanRes("", "", ErrUnknownMode(m1)))
       ELSE IF m1 # "" /\ s1 # ""
         THEN go(TRUE, ScanRes(m1, s1, NoErr))
       ELSE go(FALSE, ScanRes("", "", NoErr))

\* variant: a mode outside validModes is skipped instead of rejected
ScanStep_IgnoreUnknown(tok, mode, sysLabel) ==
    LET isMode == tok.key = modeKey
        m0 == IF isMode THEN (IF tok.val = "" THEN "install" ELSE tok.val)
              ELSE mode
        m1 == IF InList(validModes, m0) THEN m0 ELSE ""
        s1 == IF tok.key = sysKey THEN tok.val ELSE sysLabel
        go(d, r) == [done |-> d, res |-> r, mode |-> m1, sysLabel |-> s1]
    IN IF isMode /\ m1 = "run"
         THEN go(TRUE, ScanRes("run", "", NoErr))
       ELSE IF m1 # "" /\ s1 # ""
         THEN go(TRUE, ScanRes(m1, s1, NoErr))
       ELSE go(FALSE, ScanRes("", "", NoErr))

\* variant: the first recovery-system label is kept, later ones are ignored
ScanStep_FirstLabelWins(tok, mode, sysLabel) ==
    LET isMode == tok.key = modeKey
        m1 == IF isMode THEN (IF tok.val = "" THEN "install" ELSE tok.val)
              ELSE mode
        s1 == IF tok.key = sysKey /\ sysLabel = "" THEN tok.val ELSE sysLabel
        go(d, r) == [done |-> d, res |-> r, mode |-> m1, sysLabel |-> s1]
    IN IF isMode /\ ~InList(validModes, m1)
         THEN go(TRUE, ScanRes("", "", ErrUnknownMode(m1)))
       ELSE IF isMode /\ m1 = "run"
         THEN go(TRUE, ScanRes("run", "", NoErr))
       ELSE IF m1 # "" /\ s1 # ""
         THEN go(TRUE, ScanRes(m1, s1, NoErr))
       ELSE go(FALSE, ScanRes("", "", NoErr))

\* the body of the scanning loop for one word: either the parser returns
\* (done, with res) or it goes on with the updated mode and sysLabel
ScanStep(tok, mode, sysLabel) ==
    LET isMode == tok.key = modeKey
        m1 == IF isMode THEN (IF tok.val = "" THEN "install" ELSE tok.val)
              ELSE mode
        s1 == IF tok.key = sysKey THEN tok.val ELSE sysLabel
        go(d, r) == [done |-> d, res |-> r, mode |-> m1, sysLabel |-> s1]
    IN IF isMode /\ ~InList(validModes, m1)
         THEN go(TRUE, ScanRes("", "", ErrUnknownMode(m1)))
       ELSE IF isMode /\ m1 = "run"
         THEN go(TRUE, ScanRes("run", "", NoErr))
       ELSE IF m1 # "" /\ s1 # ""
         THEN go(TRUE, ScanRes(m1, s1, NoErr))
       ELSE go(FALSE, ScanRes("", "", NoErr))

\* variant: a mode without a label is accepted when the input is exhausted
ScanEnd_Lenient(mode, sysLabel) ==
    IF mode # "" THEN ScanRes(mode, sysLabel, NoErr)
    ELSE ScanRes("", "", ErrNoMode)

\* the return after the loop, when the input is exhausted
ScanEnd(mode, sysLabel) == ScanRes("", "", ErrNoMode)

RECURSIVE Scan(_, _, _, _)
Scan(cmd, i, mode, sysLabel) ==
    IF i > Len(cmd) THEN ScanEnd(mode, sysLabel)
    ELSE LET st == ScanStep(cmd[i], mode, sysLabel)
         IN IF st.done THEN st.res
            ELSE Scan(cmd, i + 1, st.mode, st.sysLabel)

whichModeAndRecoverSystem(cmd) == Scan(cmd, 1, "", "")

\* ------------------------------------------------------- collaborators
\* osutil.IsMounted: the probe fails or tells whether the path is mounted
ErrProbe(p) == Err("cannot read mount table", Base(p))
IsMounted(p) == [err |-> IF p \in probeErr THEN ErrProbe(p) ELSE NoErr,
                 isMounted |-> p \in mounted]

\* index of the first path of ps whose probe fails, 0 if none fails
FirstFail(ps) ==
    IF \E i \in 1..Len(ps) : IsMounted(ps[i]).err # NoErr
      THEN CHOOSE i \in 1..Len(ps) :
             /\ IsMounted(ps[i]).err # NoErr
             /\ \A j \in 1..(i - 1) : IsMounted(ps[j]).err = NoErr
      ELSE 0

\* seed.Open, LoadAssertions, LoadMeta: the first stage that fails, if any
ErrSeed(stage) == Err("cannot load seed", stage)
SeedLoadErr ==
    IF seed.fault \in {"open", "assertions", "meta"} THEN ErrSeed(seed.fault)
    ELSE NoErr

\* snap.Open and snap.ReadInfoFromSnapFile of the i-th essential snap
SnapInfoErr(i) ==
    IF seed.fault \in {"snap", "info"} /\ seed.badSnap = i
      THEN Err("cannot read snap", seed.fault)
      ELSE NoErr

\* boot.Modeenv.Write: the file is replaced by the record
ErrWrite == Err("cannot write modeenv", "")
ModeenvRecord(m, rs, b, k) ==
    [st |-> "ok", mode |-> m, recovery_system |-> rs, base |-> b, kernel |-> k]
NoModeenv == [st |-> "missing", mode |-> "", recovery_system |-> "",
              base |-> "", kernel |-> ""]
BadModeenv == [NoModeenv EXCEPT !.st = "malformed"]
ModeenvWrite(m) == [err |-> IF writeOK THEN NoErr ELSE ErrWrite,
                    file |-> IF writeOK THEN m ELSE modeenv]

\* boot.ReadModeenv: a missing or malformed file is an error
ErrModeenv(st) == Err("cannot read modeenv", st)
ReadModeenv == [err |-> IF modeenv.st = "ok" THEN NoErr ELSE ErrModeenv(modeenv.st),
                modeEnv |-> modeenv]

\* ------------------------------------------------------ mode generators
\* what one invocation did: its output, its error and its side effects
Result0 == [out |-> <<>>, err |-> NoErr, probes |-> <<>>, modeenv |-> modeenv,
            wrote |-> FALSE, seedLoaded |-> FALSE, modeenvRead |-> FALSE]

\* the loop over systemSeed.EssentialSnaps(): output so far and error
\* variant: the switch does not look at the mounted flags
EssentialLine_IgnoreMounted(essentialSnap, isBaseMounted, isKernelMounted, isSnapdMounted) ==
    CASE essentialSnap.type = "base" ->
           <<Tuple("", essentialSnap.path, baseDir)>>
      [] essentialSnap.type = "kernel" ->
           <<Tuple("", essentialSnap.path, kernelDir)>>
      [] essentialSnap.type = "snapd" ->
           <<Tuple("", essentialSnap.path, snapdDir)>>
      [] OTHER -> <<>>

\* the switch on info.GetType(): the line printed for one essential snap
EssentialLine(essentialSnap, isBaseMounted, isKernelMounted, isSnapdMounted) ==
    CASE essentialSnap.type = "base" /\ ~isBaseMounted ->
           <<Tuple("", essentialSnap.path, baseDir)>>
      [] essentialSnap.type = "kernel" /\ ~isKernelMounted ->
           <<Tuple("", essentialSnap.path, kernelDir)>>
      [] essentialSnap.type = "snapd" /\ ~isSnapdMounted ->
           <<Tuple("", essentialSnap.path, snapdDir)>>
      [] OTHER -> <<>>

RECURSIVE EssentialLoop(_, _, _, _, _, _)
EssentialLoop(snaps, i, o, isBaseMounted, isKernelMounted, isSnapdMounted) ==
    IF i > Len(snaps) THEN [out |-> o, err |-> NoErr]
    ELSE IF SnapInfoErr(i) # NoErr THEN [out |-> o, err |-> SnapInfoErr(i)]
    ELSE EssentialLoop(snaps, i + 1,
                       o \o EssentialLine(snaps[i], isBaseMounted,
                                          isKernelMounted, isSnapdMounted),
                       isBaseMounted, isKernelMounted, isSnapdMounted)

\* variant: install mode returns after step 2 when it printed anything
InstallDataAndModeenv_ReturnAfterStep2(recoverySystem, o, r) ==
    LET pd == IsMounted(dataDir)
        r3 == [r EXCEPT !.out = o, !.probes = r.probes \o <<dataDir>>]
        w  == ModeenvWrite(ModeenvRecord("install", recoverySystem, "", ""))
    IN IF o # <<>> THEN [r EXCEPT !.out = o]
       ELSE IF pd.err # NoErr THEN [r3 EXCEPT !.err = pd.err]
       ELSE IF ~pd.isMounted THEN [r3 EXCEPT !.out = o \o <<TmpfsDataTuple>>]
       ELSE IF w.err # NoErr THEN [r3 EXCEPT !.err = w.err]
       ELSE [r3 EXCEPT !.modeenv = w.file, !.wrote = TRUE]

\* variant: the tmpfs tuple is printed without probing ubuntu-data
InstallDataAndModeenv_NoDataProbe(recoverySystem, o, r) ==
    [r EXCEPT !.out = o \o <<TmpfsDataTuple>>]

\* variant: an existing install modeenv is not overwritten but reported
InstallDataAndModeenv_WriteOnce(recoverySystem, o, r) ==
    LET pd == IsMounted(dataDir)
        r3 == [r EXCEPT !.out = o, !.probes = r.probes \o <<dataDir>>]
        w  == ModeenvWrite(ModeenvRecord("install", recoverySystem, "", ""))
    IN IF pd.err # NoErr THEN [r3 EXCEPT !.err = pd.err]
       ELSE IF ~pd.isMounted THEN [r3 EXCEPT !.out = o \o <<TmpfsDataTuple>>]
       ELSE IF modeenv.st = "ok" /\ modeenv.mode = "install"
         THEN [r3 EXCEPT !.err = Err("modeenv already written", "")]
       ELSE IF w.err # NoErr THEN [r3 EXCEPT !.err = w.err]
       ELSE [r3 EXCEPT !.modeenv = w.file, !.wrote = TRUE]

\* variant: the test of the ubuntu-data probe is inverted
InstallDataAndModeenv_InvertedDataCheck(recoverySystem, o, r) ==
    LET pd == IsMounted(dataDir)
        r3 == [r EXCEPT !.out = o, !.probes = r.probes \o <<dataDir>>]
        w  == ModeenvWrite(ModeenvRecord("install", recoverySystem, "", ""))
    IN IF pd.err # NoErr THEN [r3 EXCEPT !.err = pd.err]
       ELSE IF pd.isMounted THEN [r3 EXCEPT !.out = o \o <<TmpfsDataTuple>>]
       ELSE IF w.err # NoErr THEN [r3 EXCEPT !.err = w.err]
       ELSE [r3 EXCEPT !.modeenv = w.file, !.wrote = TRUE]

\* steps 3 to 5 of install mode, entered with the output o of step 2
InstallDataAndModeenv(recoverySystem, o, r) ==
    LET pd == IsMounted(dataDir)
        r3 == [r EXCEPT !.out = o, !.probes = r.probes \o <<dataDir>>]
        w  == ModeenvWrite(ModeenvRecord("install", recoverySystem, "", ""))
    IN IF pd.err # NoErr THEN [r3 EXCEPT !.err = pd.err]
       ELSE IF ~pd.isMounted THEN [r3 EXCEPT !.out = o \o <<TmpfsDataTuple>>]
       ELSE IF w.err # NoErr THEN [r3 EXCEPT !.err = w.err]
       ELSE [r3 EXCEPT !.modeenv = w.file, !.wrote = TRUE]

\* variant: a seed that fails to load is skipped and the steps go on
generateMountsModeInstall_IgnoreSeedErr(recoverySystem) ==
    LET ps   == <<baseDir, kernelDir, snapdDir>>
        f    == FirstFail(ps)
        r1   == [Result0 EXCEPT !.probes = <<seedDir>>]
        r2   == [Result0 EXCEPT !.probes = <<seedDir>> \o ps]
        isBaseMounted   == IsMounted(baseDir).isMounted
        isKernelMounted == IsMounted(kernelDir).isMounted
        isSnapdMounted  == IsMounted(snapdDir).isMounted
        loop == EssentialLoop(seed.essential, 1, <<>>,
                              isBaseMounted, isKernelMounted, isSnapdMounted)
    IN IF IsMounted(seedDir).err # NoErr
         THEN [r1 EXCEPT !.err = IsMounted(seedDir).err]
       ELSE IF ~IsMounted(seedDir).isMounted
         THEN [r1 EXCEPT !.out = <<Tuple("", ByLabel("ubuntu-seed"), seedDir)>>]
       ELSE IF f # 0
         THEN [r1 EXCEPT !.probes = <<seedDir>> \o SubSeq(ps, 1, f),
                         !.err = IsMounted(ps[f]).err]
       ELSE IF ~isBaseMounted \/ ~isKernelMounted \/ ~isSnapdMounted
         THEN IF SeedLoadErr # NoErr
                THEN InstallDataAndModeenv(recoverySystem, <<>>,
                                           [r2 EXCEPT !.seedLoaded = TRUE])
              ELSE IF loop.err # NoErr
                THEN [r2 EXCEPT !.out = loop.out, !.err = loop.err,
                                !.seedLoaded = TRUE]
              ELSE InstallDataAndModeenv(recoverySystem, loop.out,
                                         [r2 EXCEPT !.seedLoaded = TRUE])
       ELSE InstallDataAndModeenv(recoverySystem, <<>>, r2)

\* variant: no return after the ubuntu-seed tuple, step 3 follows at once
generateMountsModeInstall_SeedFallThrough(recoverySystem) ==
    LET ps   == <<baseDir, kernelDir, snapdDir>>
        f    == FirstFail(ps)
        r1   == [Result0 EXCEPT !.probes = <<seedDir>>]
        r2   == [Result0 EXCEPT !.probes = <<seedDir>> \o ps]
        isBaseMounted   == IsMounted(baseDir).isMounted
        isKernelMounted == IsMounted(kernelDir).isMounted
        isSnapdMounted  == IsMounted(snapdDir).isMounted
        loop == EssentialLoop(seed.essential, 1, <<>>,
                              isBaseMounted, isKernelMounted, isSnapdMounted)
    IN IF IsMounted(seedDir).err # NoErr
         THEN [r1 EXCEPT !.err = IsMounted(seedDir).err]
       ELSE IF ~IsMounted(seedDir).isMounted
         THEN InstallDataAndModeenv(recoverySystem,
                                    <<Tuple("", ByLabel("ubuntu-seed"), seedDir)>>, r1)
       ELSE IF f # 0
         THEN [r1 EXCEPT !.probes = <<seedDir>> \o SubSeq(ps, 1, f),
                         !.err = IsMounted(ps[f]).err]
       ELSE IF ~isBaseMounted \/ ~isKernelMounted \/ ~isSnapdMounted
         THEN IF SeedLoadErr # NoErr
                THEN [r2 EXCEPT !.err = SeedLoadErr, !.seedLoaded = TRUE]
              ELSE IF loop.err # NoErr
                THEN [r2 EXCEPT !.out = loop.out, !.err = loop.err,
                                !.seedLoaded = TRUE]
              ELSE InstallDataAndModeenv(recoverySystem, loop.out,
                                         [r2 EXCEPT !.seedLoaded = TRUE])
       ELSE InstallDataAndModeenv(recoverySystem, <<>>, r2)

generateMountsModeInstall(recoverySystem) ==
    LET ps   == <<baseDir, kernelDir, snapdDir>>
        f    == FirstFail(ps)
        r1   == [Result0 EXCEPT !.probes = <<seedDir>>]
        r2   == [Result0 EXCEPT !.probes = <<seedDir>> \o ps]
        isBaseMounted   == IsMounted(baseDir).isMounted
        isKernelMounted == IsMounted(kernelDir).isMounted
        isSnapdMounted  == IsMounted(snapdDir).isMounted
        loop == EssentialLoop(seed.essential, 1, <<>>,
                              isBaseMounted, isKernelMounted, isSnapdMounted)
    IN IF IsMounted(seedDir).err # NoErr
         THEN [r1 EXCEPT !.err = IsMounted(seedDir).err]
       ELSE IF ~IsMounted(seedDir).isMounted
         THEN [r1 EXCEPT !.out = <<Tuple("", ByLabel("ubuntu-seed"), seedDir)>>]
       ELSE IF f # 0
         THEN [r1 EXCEPT !.probes = <<seedDir>> \o SubSeq(ps, 1, f),
                         !.err = IsMounted(ps[f]).err]
       ELSE IF ~isBaseMounted \/ ~isKernelMounted \/ ~isSnapdMounted
         THEN IF SeedLoadErr # NoErr
                THEN [r2 EXCEPT !.err = SeedLoadErr, !.seedLoaded = TRUE]
              ELSE IF loop.err # NoErr
                THEN [r2 EXCEPT !.out = loop.out, !.err = loop.err,
                                !.seedLoaded = TRUE]
              ELSE InstallDataAndModeenv(recoverySystem, loop.out,
                                         [r2 EXCEPT !.seedLoaded = TRUE])
       ELSE InstallDataAndModeenv(recoverySystem, <<>>, r2)

\* variant: recover mode falls through to the install generator
generateMountsModeRecover_AsInstall(recoverySystem) ==
    generateMountsModeInstall(recoverySystem)

generateMountsModeRecover(recoverySystem) ==
    [Result0 EXCEPT !.err = ErrRecover]

\* step 1.1 of run mode: the by-label tuples of the unmounted paths of ds
RECURSIVE PartitionLoop(_, _, _)
PartitionLoop(ds, i, o) ==
    IF i > Len(ds) THEN [out |-> o, err |-> NoErr, probes |-> ds]
    ELSE LET d == ds[i]
             p == IsMounted(d)
         IN IF p.err # NoErr
              THEN [out |-> o, err |-> p.err, probes |-> SubSeq(ds, 1, i)]
            ELSE PartitionLoop(ds, i + 1,
                   IF p.isMounted THEN o
                   ELSE o \o <<Tuple("", ByLabel(Base(d)), d)>>)

\* variant: the kernel source is built from modeEnv.Base
RunBaseAndKernel_KernelFromBase(o, pr) ==
    LET rd == ReadModeenv
        modeEnv == rd.modeEnv
        r  == [Result0 EXCEPT !.out = o, !.probes = pr, !.modeenvRead = TRUE]
        pb == IsMounted(baseDir)
        base == Join(Join(Join(dataDir, <<"system-data">>), SnapBlobDir),
                     <<modeEnv.base>>)
        ob == IF pb.isMounted THEN o ELSE o \o <<Tuple("", base, baseDir)>>
        pk == IsMounted(kernelDir)
        ok == IF pk.isMounted THEN ob ELSE ob \o <<Tuple("", base, kernelDir)>>
    IN IF rd.err # NoErr THEN [r EXCEPT !.err = rd.err]
       ELSE IF pb.err # NoErr
         THEN [r EXCEPT !.err = pb.err, !.probes = pr \o <<baseDir>>]
       ELSE IF pk.err # NoErr
         THEN [r EXCEPT !.out = ob, !.err = pk.err,
                        !.probes = pr \o <<baseDir, kernelDir>>]
       ELSE [r EXCEPT !.out = ok, !.probes = pr \o <<baseDir, kernelDir>>]

\* variant: run mode records mode=run in the modeenv file it has read
RunBaseAndKernel_RecordsMode(o, pr) ==
    LET rd == ReadModeenv
        modeEnv == rd.modeEnv
        r  == [Result0 EXCEPT !.out = o, !.probes = pr, !.modeenvRead = TRUE]
        pb == IsMounted(baseDir)
        base == Join(Join(Join(dataDir, <<"system-data">>), SnapBlobDir),
                     <<modeEnv.base>>)
        ob == IF pb.isMounted THEN o ELSE o \o <<Tuple("", base, baseDir)>>
        pk == IsMounted(kernelDir)
        kernel == Join(Join(Join(dataDir, <<"system-data">>), SnapBlobDir),
                       <<modeEnv.kernel>>)
        ok == IF pk.isMounted THEN ob ELSE ob \o <<Tuple("", kernel, kernelDir)>>
    IN IF rd.err # NoErr THEN [r EXCEPT !.err = rd.err]
       ELSE IF pb.err # NoErr
         THEN [r EXCEPT !.err = pb.err, !.probes = pr \o <<baseDir>>]
       ELSE IF pk.err # NoErr
         THEN [r EXCEPT !.out = ob, !.err = pk.err,
                        !.probes = pr \o <<baseDir, kernelDir>>]
       ELSE [r EXCEPT !.out = ok, !.probes = pr \o <<baseDir, kernelDir>>,
                      !.modeenv = [modeEnv EXCEPT !.mode = "run"],
                      !.wrote = TRUE]

\* variant: the base image is taken from the seed's base snap
RunBaseAndKernel_BaseFromSeed(o, pr) ==
    LET rd == ReadModeenv
        modeEnv == rd.modeEnv
        r  == [Result0 EXCEPT !.out = o, !.probes = pr, !.modeenvRead = TRUE,
                              !.seedLoaded = TRUE]
        pb == IsMounted(baseDir)
        bases == SelectSeq(seed.essential, LAMBDA e : e.type = "base")
        base == IF bases # <<>> THEN bases[1].path
                ELSE Join(Join(Join(dataDir, <<"system-data">>), SnapBlobDir),
                          <<modeEnv.base>>)
        ob == IF pb.isMounted THEN o ELSE o \o <<Tuple("", base, baseDir)>>
        pk == IsMounted(kernelDir)
        kernel == Join(Join(Join(dataDir, <<"system-data">>), SnapBlobDir),
                       <<modeEnv.kernel>>)
        ok == IF pk.isMounted THEN ob ELSE ob \o <<Tuple("", kernel, kernelDir)>>
    IN IF rd.err # NoErr THEN [r EXCEPT !.err = rd.err]
       ELSE IF pb.err # NoErr
         THEN [r EXCEPT !.err = pb.err, !.probes = pr \o <<baseDir>>]
       ELSE IF pk.err # NoErr
         THEN [r EXCEPT !.out = ob, !.err = pk.err,
                        !.probes = pr \o <<baseDir, kernelDir>>]
       ELSE [r EXCEPT !.out = ok, !.probes = pr \o <<baseDir, kernelDir>>]

\* variant: the modeenv is read only when base or kernel is unmounted
RunBaseAndKernel_LazyRead(o, pr) ==
    LET rd == ReadModeenv
        modeEnv == rd.modeEnv
        r  == [Result0 EXCEPT !.out = o, !.probes = pr]
        pb == IsMounted(baseDir)
        base == Join(Join(Join(dataDir, <<"system-data">>), SnapBlobDir),
                     <<modeEnv.base>>)
        ob == IF pb.isMounted THEN o ELSE o \o <<Tuple("", base, baseDir)>>
        pk == IsMounted(kernelDir)
        kernel == Join(Join(Join(dataDir, <<"system-data">>), SnapBlobDir),
                       <<modeEnv.kernel>>)
        ok == IF pk.isMounted THEN ob ELSE ob \o <<Tuple("", kernel, kernelDir)>>
    IN IF pb.err # NoErr
         THEN [r EXCEPT !.err = pb.err, !.probes = pr \o <<baseDir>>]
       ELSE IF pk.err # NoErr
         THEN [r EXCEPT !.err = pk.err, !.probes = pr \o <<baseDir, kernelDir>>]
       ELSE IF pb.isMounted /\ pk.isMounted
         THEN [r EXCEPT !.probes = pr \o <<baseDir, kernelDir>>]
       ELSE IF rd.err # NoErr
         THEN [r EXCEPT !.err = rd.err, !.modeenvRead = TRUE,
                        !.probes = pr \o <<baseDir, kernelDir>>]
       ELSE [r EXCEPT !.out = ok, !.modeenvRead = TRUE,
                      !.probes = pr \o <<baseDir, kernelDir>>]

\* step 2 of run mode, entered with the output o and the probes of step 1
RunBaseAndKernel(o, pr) ==
    LET rd == ReadModeenv
        modeEnv == rd.modeEnv
        r  == [Result0 EXCEPT !.out = o, !.probes = pr, !.modeenvRead = TRUE]
        pb == IsMounted(baseDir)
        base == Join(Join(Join(dataDir, <<"system-data">>), SnapBlobDir),
                     <<modeEnv.base>>)
        ob == IF pb.isMounted THEN o ELSE o \o <<Tuple("", base, baseDir)>>
        pk == IsMounted(kernelDir)
        kernel == Join(Join(Join(dataDir, <<"system-data">>), SnapBlobDir),
                       <<modeEnv.kernel>>)
        ok == IF pk.isMounted THEN ob ELSE ob \o <<Tuple("", kernel, kernelDir)>>
    IN IF rd.err # NoErr THEN [r EXCEPT !.err = rd.err]
       ELSE IF pb.err # NoErr
         THEN [r EXCEPT !.err = pb.err, !.probes = pr \o <<baseDir>>]
       ELSE IF pk.err # NoErr
         THEN [r EXCEPT !.out = ob, !.err = pk.err,
                        !.probes = pr \o <<baseDir, kernelDir>>]
       ELSE [r EXCEPT !.out = ok, !.probes = pr \o <<baseDir, kernelDir>>]

\* variant: the ubuntu-data tuple is printed whether or not it is mounted
generateMountsModeRun_DataUnchecked ==
    LET l  == PartitionLoop(<<seedDir, bootDir>>, 1, <<>>)
        pd == IsMounted(dataDir)
        r  == [Result0 EXCEPT !.out = l.out, !.probes = l.probes]
        rd == [r EXCEPT !.probes = l.probes \o <<dataDir>>]
    IN IF l.err # NoErr THEN [r EXCEPT !.err = l.err]
       ELSE IF pd.err # NoErr THEN [rd EXCEPT !.err = pd.err]
       ELSE [rd EXCEPT !.out = l.out \o <<Tuple("", ByLabel(Base(dataDir)), dataDir)>>]

\* variant: no return after the ubuntu-data tuple, step 2 follows at once
generateMountsModeRun_NoReturnAfterData ==
    LET l  == PartitionLoop(<<seedDir, bootDir>>, 1, <<>>)
        pd == IsMounted(dataDir)
        r  == [Result0 EXCEPT !.out = l.out, !.probes = l.probes]
        rd == [r EXCEPT !.probes = l.probes \o <<dataDir>>]
    IN IF l.err # NoErr THEN [r EXCEPT !.err = l.err]
       ELSE IF pd.err # NoErr THEN [rd EXCEPT !.err = pd.err]
       ELSE IF ~pd.isMounted
         THEN RunBaseAndKernel(l.out \o <<Tuple("", ByLabel(Base(dataDir)), dataDir)>>,
                               rd.probes)
       ELSE RunBaseAndKernel(l.out, rd.probes)

generateMountsModeRun ==
    LET l  == PartitionLoop(<<seedDir, bootDir>>, 1, <<>>)
        pd == IsMounted(dataDir)
        r  == [Result0 EXCEPT !.out = l.out, !.probes = l.probes]
        rd == [r EXCEPT !.probes = l.probes \o <<dataDir>>]
    IN IF l.err # NoErr THEN [r EXCEPT !.err = l.err]
       ELSE IF pd.err # NoErr THEN [rd EXCEPT !.err = pd.err]
       ELSE IF ~pd.isMounted
         THEN [rd EXCEPT !.out = l.out \o <<Tuple("", ByLabel(Base(dataDir)), dataDir)>>]
       ELSE RunBaseAndKernel(l.out, rd.probes)

\* the orchestrator: classify the cmdline and dispatch
Dispatch ==
    LET c == whichModeAndRecoverSystem(cmdline)
    IN IF c.err # NoErr THEN [Result0 EXCEPT !.err = c.err]
       ELSE CASE c.mode = "recover" -> generateMountsModeRecover(c.sysLabel)
              [] c.mode = "install" -> generateMountsModeInstall(c.sysLabel)
              [] c.mode = "run" -> generateMountsModeRun
              [] OTHER -> [Result0 EXCEPT !.err = ErrInternal]

\* ------------------------------------------------- inputs of the model
Tok(k, v) == [key |-> k, val |-> v]

Labels == {"20231001", "20191118"}

Tokens ==
    {Tok(modeKey, v) : v \in {"", "install", "recover", "run", "bogus"}}
      \cup {Tok(sysKey, v) : v \in {""} \cup Labels}
      \cup {Tok("other", "quiet")}

AllCmdlines == UNION {[1..n -> Tokens] : n \in 0..MaxCmdLen}

InstallCmdline == <<Tok(modeKey, "install"), Tok(sysKey, "20231001")>>
RunCmdline == <<Tok(modeKey, "run")>>
RecoverCmdline == <<Tok(modeKey, "recover"), Tok(sysKey, "20231001")>>

SeedSnap(name, ty) == [path |-> Join(seedDir, <<"snaps", name>>), type |-> ty]

EssentialBKS == <<SeedSnap("snapd_1.snap", "snapd"),
                  SeedSnap("pc-kernel_1.snap", "kernel"),
                  SeedSnap("core20_1.snap", "base")>>
EssentialFull == EssentialBKS \o <<SeedSnap("pc_1.snap", "gadget")>>
EssentialNoBase == <<SeedSnap("pc-kernel_1.snap", "kernel"),
                     SeedSnap("pc_1.snap", "gadget"),
                     SeedSnap("snapd_1.snap", "snapd")>>

Seed(f, b, e) == [fault |-> f, badSnap |-> b, essential |-> e]
GoodSeed == Seed("none", 0, EssentialBKS)

Seeds ==
    {Seed("none", 0, e) : e \in {EssentialBKS, EssentialFull, EssentialNoBase}}
      \cup {Seed(f, 0, EssentialBKS) : f \in {"open", "assertions", "meta"}}
      \cup {Seed("snap", 2, EssentialBKS), Seed("info", 1, EssentialFull)}

RunModeenv == ModeenvRecord("run", "", "core20_5.snap", "pc-kernel_10.snap")
Modeenvs ==
    {NoModeenv, BadModeenv, RunModeenv,
     ModeenvRecord("run", "", "core20_6.snap", "pc-kernel_10.snap"),
     ModeenvRecord("install", "20191118", "", "")}

ProbeErrs == {{}} \cup {{p} : p \in MountPoints}

\* ------------------------------------------------------------------ Init
InitEnv ==
    \* every cmdline, on a machine without faults
    \/ /\ cmdline \in AllCmdlines
       /\ mounted = {}
       /\ seed = GoodSeed
       /\ modeenv = RunModeenv
       /\ probeErr = {}
       /\ writeOK = TRUE
    \* install mode: any mount table, any seed, modeenv writable or not
    \/ /\ cmdline = InstallCmdline
       /\ mounted \in SUBSET MountPoints
       /\ modeenv \in {NoModeenv, RunModeenv}
       /\ \/ seed \in Seeds /\ probeErr = {} /\ writeOK \in BOOLEAN
          \/ seed = GoodSeed /\ probeErr \in ProbeErrs /\ writeOK = TRUE
    \* run mode: any mount table, any modeenv
    \/ /\ cmdline = RunCmdline
       /\ mounted \in SUBSET MountPoints
       /\ modeenv \in Modeenvs
       /\ seed \in {GoodSeed, Seed("meta", 0, EssentialFull)}
       /\ probeErr \in ProbeErrs
       /\ writeOK = TRUE
    \* recover mode: any mount table
    \/ /\ cmdline = RecoverCmdline
       /\ mounted \in SUBSET MountPoints
       /\ modeenv \in {NoModeenv, RunModeenv}
       /\ seed = GoodSeed
       /\ probeErr = {}
       /\ writeOK = TRUE

Init ==
    /\ InitEnv
    /\ out = <<>>
    /\ err = NoErr
    /\ probes = <<>>
    /\ wrote = FALSE
    /\ seedLoaded = FALSE
    /\ modeenvRead = FALSE
    /\ pc = "idle"
    /\ calls = 0
    /\ faithful = TRUE
    /\ doneAt = 0
    /\ mountCount = [p \in MountPoints |-> IF p \in mounted THEN 1 ELSE 0]
    /\ initMounted = mounted
    /\ repaired = FALSE

\* --------------------------------------------------------------- actions
\* one invocation of the command
generateInitramfsMounts ==
    /\ calls < MaxCalls
    /\ LET r == Dispatch
       IN /\ out' = r.out
          /\ err' = r.err
          /\ probes' = r.probes
          /\ modeenv' = r.modeenv
          /\ wrote' = r.wrote
          /\ seedLoaded' = r.seedLoaded
          /\ modeenvRead' = r.modeenvRead
          /\ doneAt' = IF doneAt = 0 /\ r.out = <<>> /\ r.err = NoErr
                         THEN calls + 1 ELSE doneAt
    /\ pc' = "called"
    /\ calls' = calls + 1
    /\ faithful' = (faithful /\ (pc = "idle" \/ out = <<>>))
    /\ UNCHANGED <<cmdline, mounted, seed, probeErr, writeOK, mountCount,
                   initMounted, repaired>>

\* the caller performs the mounts of the last invocation, in order; a
\* freshly mounted tmpfs is empty
PerformMounts ==
    /\ pc = "called"
    /\ out # <<>>
    /\ mounted' = mounted \cup {out[i].target : i \in 1..Len(out)}
    /\ mountCount' = [p \in MountPoints |->
                        mountCount[p]
                          + Cardinality({i \in 1..Len(out) : out[i].target = p})]
    /\ modeenv' = IF \E i \in 1..Len(out) : out[i] = TmpfsDataTuple
                    THEN NoModeenv ELSE modeenv
    /\ pc' = "idle"
    /\ UNCHANGED <<cmdline, seed, probeErr, writeOK, out, err, probes, wrote,
                   seedLoaded, modeenvRead, calls, faithful, doneAt,
                   initMounted, repaired>>

\* after an invocation that failed to load the seed, the seed is replaced
\* by a valid one before the command is called again; mounts stay in place
RepairSeed ==
    /\ pc = "called"
    /\ SeedLoadErr # NoErr
    /\ err = SeedLoadErr
    /\ seed' = [seed EXCEPT !.fault = "none"]
    /\ repaired' = TRUE
    /\ pc' = "idle"
    /\ UNCHANGED <<cmdline, mounted, modeenv, probeErr, writeOK, out, err,
                   probes, wrote, seedLoaded, modeenvRead, calls, faithful,
                   doneAt, mountCount, initMounted>>

Next == generateInitramfsMounts \/ PerformMounts \/ RepairSeed

Spec == Init /\ [][Next]_vars

TypeOK ==
    /\ cmdline \in AllCmdlines
    /\ mounted \subseteq MountPoints
    /\ pc \in {"idle", "called"}
    /\ calls \in 0..MaxCalls
    /\ doneAt \in 0..MaxCalls
    /\ faithful \in BOOLEAN
    /\ repaired \in BOOLEAN
    /\ \A i \in 1..Len(out) : out[i].target \in MountPoints

\* ------------------------------------------------------------ properties
Class == whichModeAndRecoverSystem(cmdline)

OutSet == {out[i] : i \in 1..Len(out)}

SeedTuple == Tuple("", <<"/", "dev", "disk", "by-label", "ubuntu-seed">>,
                   <<"/", "run", "mnt", "ubuntu-seed">>)
BootTuple == Tuple("", <<"/", "dev", "disk", "by-label", "ubuntu-boot">>,
                   <<"/", "run", "mnt", "ubuntu-boot">>)
DataTuple == Tuple("", <<"/", "dev", "disk", "by-label", "ubuntu-data">>,
                   <<"/", "run", "mnt", "ubuntu-data">>)
TmpfsTuple == Tuple("tmpfs", <<"tmpfs">>, <<"/", "run", "mnt", "ubuntu-data">>)

TargetOfType(ty) == <<"/", "run", "mnt", ty>>

\* the tuples of the seed's base, kernel and snapd snaps
EssentialTuples ==
    {Tuple("", seed.essential[i].path, TargetOfType(seed.essential[i].type)) :
       i \in {j \in 1..Len(seed.essential) :
                seed.essential[j].type \in {"base", "kernel", "snapd"}}}

OneOfEach ==
    \A ty \in {"base", "kernel", "snapd"} :
       Cardinality({i \in 1..Len(seed.essential) : seed.essential[i].type = ty}) = 1

InstallModeenv == [st |-> "ok", mode |-> "install", recovery_system |-> "20231001",
                   base |-> "", kernel |-> ""]

FreshInstall ==
    /\ cmdline = <<Tok("snapd_recovery_mode", "install"),
                   Tok("snapd_recovery_system", "20231001")>>
    /\ seed.fault = "none" /\ ~repaired /\ OneOfEach
    /\ initMounted = {}
    /\ probeErr = {} /\ writeOK
    /\ faithful

\* C1 as stated: fresh install, 1st call emits the seed tuple, 2nd exactly
\* the base, kernel and snapd tuples, 3rd exactly the tmpfs data tuple, 4th
\* nothing, leaving Modeenv = {mode=install, recovery_system=20231001}.
C1_Original ==
    (FreshInstall /\ pc = "called") =>
       /\ calls = 1 => out = <<SeedTuple>>
       /\ calls = 2 => (OutSet = EssentialTuples /\ Len(out) = 3)
       /\ calls = 3 => out = <<TmpfsTuple>>
       /\ calls = 4 => (out = <<>> /\ err = NoErr /\ modeenv = InstallModeenv)

\* C1 amended: fresh install, 1st call emits only the seed tuple, 2nd emits
\* the base, kernel and snapd tuples and then the tmpfs data tuple, 3rd
\* emits nothing and writes Modeenv = {mode=install,
\* recovery_system=20231001}, 4th emits nothing and leaves that Modeenv.
C1_FreshInstall ==
    (FreshInstall /\ pc = "called") =>
       /\ err = NoErr
       /\ calls = 1 => (out = <<SeedTuple>> /\ ~wrote)
       /\ calls = 2 => /\ Len(out) = 4
                       /\ {out[i] : i \in 1..3} = EssentialTuples
                       /\ out[4] = TmpfsTuple
                       /\ ~wrote
       /\ calls = 3 => (out = <<>> /\ wrote /\ modeenv = InstallModeenv)
       /\ calls = 4 => (out = <<>> /\ modeenv = InstallModeenv)

C1_Witness == FreshInstall /\ pc = "called" /\ calls = 4 /\ out = <<>>

RunScenario ==
    /\ cmdline = <<Tok("snapd_recovery_mode", "run")>>
    /\ modeenv = [st |-> "ok", mode |-> "run", recovery_system |-> "",
                  base |-> "core20_5.snap", kernel |-> "pc-kernel_10.snap"]
    /\ initMounted = {}
    /\ probeErr = {}
    /\ faithful

BlobPath(name) == <<"/", "run", "mnt", "ubuntu-data", "system-data",
                    "var", "lib", "snapd", "snaps", name>>

\* C2 as stated: run mode, 1st call emits exactly the seed and boot tuples,
\* 2nd exactly the data tuple, 3rd exactly the base and kernel tuples with
\* sources under the data partition's blob directory, 4th nothing.
C2_Original ==
    (RunScenario /\ pc = "called") =>
       /\ calls = 1 => out = <<SeedTuple, BootTuple>>
       /\ calls = 2 => out = <<DataTuple>>
       /\ calls = 3 => out = <<Tuple("", BlobPath("core20_5.snap"), TargetOfType("base")),
                               Tuple("", BlobPath("pc-kernel_10.snap"), TargetOfType("kernel"))>>
       /\ calls = 4 => (out = <<>> /\ err = NoErr)

\* C2 amended: run mode, 1st call emits the seed, boot and data tuples, 2nd
\* exactly the base and kernel tuples with sources
\* <data>/system-data/<snap blob dir>/core20_5.snap and pc-kernel_10.snap,
\* 3rd and 4th nothing, all without error.
C2_RunScenario ==
    (RunScenario /\ pc = "called") =>
       /\ err = NoErr
       /\ calls = 1 => out = <<SeedTuple, BootTuple, DataTuple>>
       /\ calls = 2 => out = <<Tuple("", BlobPath("core20_5.snap"), TargetOfType("base")),
                               Tuple("", BlobPath("pc-kernel_10.snap"), TargetOfType("kernel"))>>
       /\ calls = 3 => out = <<>>
       /\ calls = 4 => out = <<>>

C2_Witness == RunScenario /\ pc = "called" /\ calls = 4 /\ out = <<>>

\* C3: an invocation never emits a tuple whose target is mounted at its
\* start, and with a caller that performs only emitted mounts no mount point
\* is mounted more than once.
C3_NoRedundantMounts ==
    /\ pc = "called" => \A i \in 1..Len(out) : out[i].target \notin mounted
    /\ \A p \in MountPoints : mountCount[p] <= 1

C3_Witness ==
    /\ pc = "called" /\ calls >= 2 /\ out # <<>>
    /\ initMounted # {}
    /\ mounted \ initMounted # {}

\* C4: an invocation that follows another one with no mount in between
\* gives the same output and the same error and leaves the modeenv file as
\* the first one left it.
C4_Idempotence ==
    [][(pc = "called" /\ pc' = "called") =>
          (out' = out /\ err' = err /\ modeenv' = modeenv)]_vars

\* a second install invocation right after the one that wrote the modeenv
C4_Witness ==
    /\ pc = "called" /\ wrote /\ Class.mode = "install"
    /\ doneAt >= 1 /\ calls > doneAt

\* the claim's bound on the number of calls: mount points plus Modeenv write
CallBound == IF Class.mode = "install" THEN 5 + 1 ELSE 5

TermPre ==
    /\ Class.err = NoErr
    /\ Class.mode \in {"install", "run"}
    /\ Class.mode = "install" => (seed.fault = "none" /\ ~repaired)
    /\ Class.mode = "run" => modeenv.st = "ok"
    /\ probeErr = {}
    /\ faithful

Required ==
    IF Class.mode = "install"
      THEN {TargetOfType(n) : n \in {"ubuntu-seed", "base", "kernel", "snapd", "ubuntu-data"}}
      ELSE {TargetOfType(n) : n \in {"ubuntu-seed", "ubuntu-boot", "ubuntu-data", "base", "kernel"}}

Outstanding == Cardinality(Required \ mounted)

\* C6: in install and run mode the number of required mount points still
\* unmounted never increases, and it is strictly smaller after the caller
\* performed the mounts of an invocation with non-empty output.
C6_Monotone ==
    [][(Class.err = NoErr /\ Class.mode \in {"install", "run"}) =>
          /\ Outstanding' <= Outstanding
          /\ (pc = "called" /\ pc' = "idle") =>
                (out = <<>> \/ Outstanding' < Outstanding)]_vars

C6_Witness ==
    /\ pc = "idle" /\ calls >= 2 /\ Class.mode = "run"
    /\ Outstanding = 0 /\ initMounted = {}

FirstModeIsRun(cmd) ==
    \E i \in 1..Len(cmd) :
       /\ cmd[i] = Tok("snapd_recovery_mode", "run")
       /\ \A j \in 1..(i - 1) : cmd[j].key # "snapd_recovery_mode"

GeneratorFreeErrors ==
    {"cannot detect mode nor recovery system to use", "cannot use unknown mode",
     "recover mode mount generation not implemented yet",
     "internal error: mode in generateInitramfsMounts not handled"}

\* C7: a cmdline whose first snapd_recovery_mode word is "run" classifies as
\* mode run with an empty label and no error, whatever words come before or
\* after it, and the run generator is the one that runs.
C7_RunClassification ==
    FirstModeIsRun(cmdline) =>
       /\ Class = [mode |-> "run", sysLabel |-> "", err |-> NoErr]
       /\ pc = "called" =>
            /\ err.msg \notin GeneratorFreeErrors
            /\ probes # <<>> /\ probes[1] = TargetOfType("ubuntu-seed")
            /\ ~seedLoaded /\ ~wrote

C7_Witness ==
    /\ cmdline = <<Tok("snapd_recovery_mode", "run"),
                   Tok("snapd_recovery_system", "20231001"),
                   Tok("snapd_recovery_mode", "bogus")>>
    /\ pc = "called"

\* a valid non-run mode and no non-empty recovery-system word
ModeWithoutLabel(cmd) ==
    /\ \E i \in 1..Len(cmd) : cmd[i].key = "snapd_recovery_mode"
    /\ \A i \in 1..Len(cmd) :
          /\ cmd[i].key = "snapd_recovery_mode" => cmd[i].val \in {"", "install", "recover"}
          /\ cmd[i].key = "snapd_recovery_system" => cmd[i].val = ""

\* C8 as stated: a valid non-run mode without a label is classified
\* successfully, with that mode and an empty label.
C8_Original ==
    ModeWithoutLabel(cmdline) =>
       /\ Class.err = NoErr
       /\ Class.mode \in {"install", "recover"}
       /\ Class.sysLabel = ""

\* C8 amended: a valid non-run mode without a label is rejected by the
\* parser with "cannot detect mode nor recovery system to use"; the
\* invocation returns that error and no generator runs.
C8_ModeWithoutLabel ==
    ModeWithoutLabel(cmdline) =>
       /\ Class = [mode |-> "", sysLabel |-> "",
                   err |-> [msg |-> "cannot detect mode nor recovery system to use",
                            arg |-> ""]]
       /\ pc = "called" =>
            /\ err = Class.err
            /\ out = <<>> /\ probes = <<>>
            /\ ~wrote /\ ~seedLoaded /\ ~modeenvRead

C8_Witness ==
    /\ cmdline = <<Tok("snapd_recovery_mode", "recover"), Tok("other", "quiet")>>
    /\ pc = "called"

OnlyUnknownModes(cmd) ==
    /\ \E i \in 1..Len(cmd) : cmd[i].key = "snapd_recovery_mode"
    /\ \A i \in 1..Len(cmd) :
          cmd[i].key = "snapd_recovery_mode" =>
             cmd[i].val \notin {"", "install", "recover", "run"}

NoModeCmdlines ==
    UNION {[1..n -> {t \in Tokens : t.key # "snapd_recovery_mode"}] :
             n \in 0..MaxCmdLen}

\* C9: a cmdline whose mode value is none of install, recover, run or empty
\* makes the invocation return the unknown-mode error without output,
\* probe or Modeenv write, and that error differs from the one returned
\* when there is no mode word.
C9_UnknownMode ==
    OnlyUnknownModes(cmdline) =>
       /\ Class.err.msg = "cannot use unknown mode"
       /\ Class.mode = "" /\ Class.sysLabel = ""
       /\ \A d \in NoModeCmdlines :
             /\ whichModeAndRecoverSystem(d).err # NoErr
             /\ whichModeAndRecoverSystem(d).err.msg # Class.err.msg
       /\ pc = "called" =>
            /\ err = Class.err
            /\ out = <<>> /\ probes = <<>>
            /\ ~wrote /\ ~seedLoaded /\ ~modeenvRead

C9_Witness ==
    /\ cmdline = <<Tok("snapd_recovery_system", "20231001"),
                   Tok("snapd_recovery_mode", "bogus")>>
    /\ pc = "called"

RecoverClass == Class.err = NoErr /\ Class.mode = "recover"

\* C10: in recover mode every invocation returns the "not implemented"
\* error, emits nothing, probes nothing and leaves the modeenv file alone,
\* and no invocation ever gives the completion signal.
C10_Recover ==
    [][RecoverClass =>
          /\ modeenv' = modeenv
          /\ doneAt' = 0
          /\ pc' = "called" =>
               /\ err'.msg = "recover mode mount generation not implemented yet"
               /\ out' = <<>> /\ probes' = <<>> /\ ~wrote']_vars

C10_Witness ==
    /\ RecoverClass /\ pc = "called" /\ calls >= 2
    /\ mounted # {} /\ err # NoErr

InstallClass == Class.err = NoErr /\ Class.mode = "install"

InstallTargets ==
    {TargetOfType(n) : n \in {"ubuntu-seed", "base", "kernel", "snapd", "ubuntu-data"}}

\* C11: an install invocation writes Modeenv only if it emits no tuple,
\* that is only when seed, base, kernel, snapd and data are all mounted at
\* its start, and what it writes is mode=install with the cmdline's label.
C11_WriteIsTerminal ==
    (InstallClass /\ pc = "called" /\ wrote) =>
       /\ out = <<>>
       /\ InstallTargets \subseteq mounted
       /\ modeenv = [st |-> "ok", mode |-> "install",
                     recovery_system |-> Class.sysLabel,
                     base |-> "", kernel |-> ""]

RunClass == Class.err = NoErr /\ Class.mode = "run"

\* C12: in run mode no step changes the modeenv file: an invocation leaves
\* it alone whether it emits tuples, emits nothing or fails.
C12_RunNeverWrites ==
    [][RunClass => (modeenv' = modeenv /\ ~wrote')]_vars

C12_Witness ==
    /\ RunClass /\ pc = "called" /\ modeenvRead /\ err = NoErr
    /\ out # <<>> /\ modeenv.mode = "install"

\* <data>/system-data/<snap blob dir>/<name>; an empty name adds nothing
BlobSource(name) ==
    <<"/", "run", "mnt", "ubuntu-data", "system-data", "var", "lib", "snapd", "snaps">>
      \o (IF name = "" THEN <<>> ELSE <<name>>)

BaseTupleOf(m) == Tuple("", BlobSource(m.base), TargetOfType("base"))
KernelTupleOf(m) == Tuple("", BlobSource(m.kernel), TargetOfType("kernel"))

\* C13: in run mode the base and kernel tuples are determined by the mount
\* table and the Modeenv alone, whatever the seed holds: their sources are
\* <data>/system-data/<snap blob dir>/<Modeenv.Base> and <Modeenv.Kernel>,
\* they are emitted exactly for the unmounted ones, and the seed is never
\* loaded.
C13_RunTrustsModeenv ==
    (RunClass /\ pc = "called") =>
       /\ ~seedLoaded
       /\ \A i \in 1..Len(out) :
             /\ out[i].target = TargetOfType("base") => out[i] = BaseTupleOf(modeenv)
             /\ out[i].target = TargetOfType("kernel") => out[i] = KernelTupleOf(modeenv)
       /\ (err = NoErr /\ TargetOfType("ubuntu-data") \in mounted) =>
             /\ BaseTupleOf(modeenv) \in OutSet <=> TargetOfType("base") \notin mounted
             /\ KernelTupleOf(modeenv) \in OutSet <=> TargetOfType("kernel") \notin mounted

C13_Witness ==
    /\ RunClass /\ pc = "called" /\ err = NoErr
    /\ seed.fault = "meta"
    /\ TargetOfType("ubuntu-seed") \notin mounted
    /\ BaseTupleOf(modeenv) \in OutSet /\ KernelTupleOf(modeenv) \in OutSet

\* install mode, seed mounted, one of base, kernel, snapd unmounted, and the
\* seed fails to open or to load its assertions or its metadata
SeedFailCase ==
    /\ InstallClass
    /\ TargetOfType("ubuntu-seed") \in mounted
    /\ ~({TargetOfType(n) : n \in {"base", "kernel", "snapd"}} \subseteq mounted)
    /\ seed.fault \in {"open", "assertions", "meta"}

\* C14: an install invocation whose seed fails to load returns the error,
\* emits nothing, writes no Modeenv and leaves the mount table unchanged;
\* mounts are never undone, and once the seed is valid again an invocation
\* emits no tuple for a mount point that is already mounted.
C14_SeedFailure ==
    [][/\ mounted \subseteq mounted'
       /\ (SeedFailCase /\ calls' = calls + 1) =>
             /\ err'.msg = "cannot load seed" /\ err'.arg = seed.fault
             /\ out' = <<>>
             /\ ~wrote' /\ modeenv' = modeenv
             /\ mounted' = mounted
       /\ (repaired' /\ pc' = "called") =>
             \A i \in 1..Len(out') : out'[i].target \notin mounted']_vars

C14_Witness ==
    /\ repaired /\ pc = "called" /\ err = NoErr /\ out # <<>>
    /\ mounted \ initMounted # {}

\* C15: in run mode with a missing or malformed Modeenv, every invocation
\* that finds the data partition mounted returns an error and emits no base
\* or kernel tuple, also when base and kernel are mounted, and no invocation
\* ever gives the completion signal.
C15_UnreadableModeenv ==
    (RunClass /\ modeenv.st # "ok") =>
       /\ doneAt = 0
       /\ (pc = "called" /\ TargetOfType("ubuntu-data") \in mounted) =>
             /\ err # NoErr
             /\ \A i \in 1..Len(out) :
                   out[i].target \notin {TargetOfType("base"), TargetOfType("kernel")}

C15_Witness ==
    /\ RunClass /\ pc = "called" /\ modeenv.st = "malformed"
    /\ {TargetOfType(n) : n \in {"ubuntu-data", "base", "kernel"}} \subseteq mounted
    /\ err.msg = "cannot read modeenv"

EssentialTargets == {TargetOfType(n) : n \in {"base", "kernel", "snapd"}}

\* C16 as stated: the install generator emits the tmpfs ubuntu-data tuple
\* only in an invocation at whose start base, kernel and snapd are all
\* mounted, and never together with a base, kernel or snapd tuple.
C16_Original ==
    (InstallClass /\ pc = "called" /\ TmpfsTuple \in OutSet) =>
       /\ EssentialTargets \subseteq mounted
       /\ \A i \in 1..Len(out) : out[i].target \notin EssentialTargets

\* C16 amended: the install generator emits the tmpfs ubuntu-data tuple in
\* exactly the error-free invocations at whose start ubuntu-seed is mounted
\* and ubuntu-data is not, whether or not base, kernel and snapd are
\* mounted; it is emitted once, as the last tuple, after the base, kernel
\* and snapd tuples of the same invocation.
C16_DataTupleGating ==
    (InstallClass /\ pc = "called") =>
       /\ TmpfsTuple \in OutSet =>
             /\ err = NoErr
             /\ TargetOfType("ubuntu-seed") \in mounted
             /\ TargetOfType("ubuntu-data") \notin mounted
             /\ out[Len(out)] = TmpfsTuple
             /\ \A i \in 1..(Len(out) - 1) : out[i].target \in EssentialTargets
       /\ (err = NoErr /\ TargetOfType("ubuntu-seed") \in mounted
             /\ TargetOfType("ubuntu-data") \notin mounted) =>
             TmpfsTuple \in OutSet

C16_Witness ==
    /\ InstallClass /\ pc = "called"
    /\ TargetOfType("base") \in mounted
    /\ Len(out) = 3 /\ out[3] = TmpfsTuple

\* the seed's snap of a type (for a seed that holds one of each type)
SeedPathOfType(ty) ==
    (CHOOSE e \in {seed.essential[i] : i \in 1..Len(seed.essential)} : e.type = ty).path

\* C17: install mode, the probes of seed, base, kernel and snapd succeeding.
\* With the seed unmounted the invocation emits exactly the ubuntu-seed
\* tuple and does not load the seed, whatever else is mounted.  With the
\* seed mounted, loading without error and holding one snap of each type,
\* the invocation emits, for each of base, kernel and snapd, one tuple with
\* the seed's path of that type if it is unmounted and none if it is mounted.
C17_InstallSteps ==
    (InstallClass /\ pc = "called"
       /\ probeErr \cap ({TargetOfType("ubuntu-seed")} \cup EssentialTargets) = {}) =>
       /\ TargetOfType("ubuntu-seed") \notin mounted =>
             /\ out = <<SeedTuple>>
             /\ err = NoErr /\ ~seedLoaded /\ ~wrote
       /\ (TargetOfType("ubuntu-seed") \in mounted /\ seed.fault = "none" /\ OneOfEach) =>
             /\ SeedTuple \notin OutSet
             /\ \A ty \in {"base", "kernel", "snapd"} :
                   Cardinality({i \in 1..Len(out) : out[i].target = TargetOfType(ty)})
                     = IF TargetOfType(ty) \in mounted THEN 0 ELSE 1
             /\ \A i \in 1..Len(out) :
                   \A ty \in {"base", "kernel", "snapd"} :
                      out[i].target = TargetOfType(ty) =>
                         out[i] = Tuple("", SeedPathOfType(ty), TargetOfType(ty))

C17_Witness ==
    /\ InstallClass /\ pc = "called" /\ err = NoErr /\ seedLoaded /\ OneOfEach
    /\ {TargetOfType("ubuntu-seed"), TargetOfType("kernel")} \subseteq mounted
    /\ TargetOfType("base") \notin mounted /\ TargetOfType("snapd") \notin mounted
    /\ Len(out) >= 2

\* C18: a run-mode invocation at whose start the data partition is not
\* mounted does not read Modeenv and emits no base or kernel tuple; without
\* error its last tuple is the ubuntu-data tuple.  So a base or kernel
\* tuple is only ever emitted with the data partition mounted.
C18_DataBeforeModeenv ==
    (RunClass /\ pc = "called") =>
       /\ TargetOfType("ubuntu-data") \notin mounted =>
             /\ ~modeenvRead
             /\ \A i \in 1..Len(out) :
                   out[i].target \notin {TargetOfType("base"), TargetOfType("kernel")}
             /\ err = NoErr => (out # <<>> /\ out[Len(out)] = DataTuple)
       /\ (\E i \in 1..Len(out) :
              out[i].target \in {TargetOfType("base"), TargetOfType("kernel")}) =>
             (TargetOfType("ubuntu-data") \in mounted /\ modeenvRead)

C18_Witness ==
    /\ RunClass /\ pc = "called" /\ out = <<DataTuple>>
    /\ TargetOfType("base") \notin mounted /\ TargetOfType("kernel") \notin mounted
    /\ modeenv.st = "ok"

\* the completion signal: the last invocation emitted nothing, without error
Completed == pc = "called" /\ calls >= 1 /\ out = <<>> /\ err = NoErr

RunTargets ==
    {TargetOfType(n) : n \in {"ubuntu-seed", "ubuntu-boot", "ubuntu-data", "base", "kernel"}}

\* C19: when an invocation returns no error and emits nothing, the mode is
\* run or install and its mount points are all mounted: seed, boot, data,
\* base, kernel in run mode; seed, base, kernel, snapd, data in install mode
\* if the seed holds one snap of each type.  In install mode the Modeenv has
\* been written by that invocation.
C19_CompletionAssembled ==
    Completed =>
       /\ RunClass \/ InstallClass
       /\ RunClass => RunTargets \subseteq mounted
       /\ InstallClass =>
             /\ wrote
             /\ modeenv = [st |-> "ok", mode |-> "install",
                           recovery_system |-> Class.sysLabel,
                           base |-> "", kernel |-> ""]
             /\ OneOfEach => InstallTargets \subseteq mounted

C19_Witness ==
    /\ Completed /\ InstallClass /\ OneOfEach /\ wrote
    /\ initMounted = {TargetOfType("ubuntu-boot")} /\ faithful

\* the value of the last word with the given key among the first k words,
\* "" if there is none; an empty mode value reads as install
LastWord(cmd, k, key) ==
    LET idx == {i \in 1..k : cmd[i].key = key}
        last == CHOOSE i \in idx : \A j \in idx : j <= i
    IN IF idx = {} THEN ""
       ELSE IF key = "snapd_recovery_mode" /\ cmd[last].val = "" THEN "install"
       ELSE cmd[last].val

\* the parser stops at word k: an unknown or run mode word, or both a mode
\* and a non-empty label known after it
StopsAt(cmd, k) ==
    \/ /\ cmd[k].key = "snapd_recovery_mode"
       /\ cmd[k].val \notin {"", "install", "recover"}
    \/ /\ LastWord(cmd, k, "snapd_recovery_mode") # ""
       /\ LastWord(cmd, k, "snapd_recovery_system") # ""

FirstCompletePair(cmd) ==
    LET stops == {k \in 1..Len(cmd) : StopsAt(cmd, k)}
        k == CHOOSE i \in stops : \A j \in stops : i <= j
    IN IF stops = {}
         THEN [mode |-> "", sysLabel |-> "",
               err |-> [msg |-> "cannot detect mode nor recovery system to use",
                        arg |-> ""]]
       ELSE IF cmd[k].key = "snapd_recovery_mode" /\ cmd[k].val = "run"
         THEN [mode |-> "run", sysLabel |-> "", err |-> [msg |-> "", arg |-> ""]]
       ELSE IF cmd[k].key = "snapd_recovery_mode"
                 /\ cmd[k].val \notin {"", "install", "recover"}
         THEN [mode |-> "", sysLabel |-> "",
               err |-> [msg |-> "cannot use unknown mode", arg |-> cmd[k].val]]
       ELSE [mode |-> LastWord(cmd, k, "snapd_recovery_mode"),
             sysLabel |-> LastWord(cmd, k, "snapd_recovery_system"),
             err |-> [msg |-> "", arg |-> ""]]

\* C20: the parser's result is decided at the first word that is an unknown
\* mode (error), a run mode (run, no label), or after which a valid mode and
\* a non-empty label are both known (that mode and label, each the last one
\* seen so far); later words are ignored; with no such word it is the
\* "cannot detect" error.  The orchestrator returns a parser error as it is.
C20_FirstCompletePair ==
    /\ Class = FirstCompletePair(cmdline)
    /\ (pc = "called" /\ FirstCompletePair(cmdline).err.msg # "") =>
          (err = FirstCompletePair(cmdline).err /\ out = <<>>)

C20_Witness ==
    /\ cmdline = <<Tok("snapd_recovery_system", "20191118"),
                   Tok("snapd_recovery_system", "20231001"),
                   Tok("snapd_recovery_mode", "recover")>>
    /\ pc = "called" /\ err.msg = "recover mode mount generation not implemented yet"

====
